---- MODULE Spec2Model ----
(***************************************************************************)
(* The analysis cache and history index of SmartPaper                      *)
(* (src/core/history_manager.py, class HistoryManager) and the places of   *)
(* the front end that use it.                                              *)
(*                                                                         *)
(* Strings are sequences of one-character strings, so that slicing,        *)
(* concatenation and sanitisation are computed as the code computes them.  *)
(* "CR" and "LF" stand for the characters \r and \n.                       *)
(***************************************************************************)
EXTENDS Integers, Sequences, FiniteSets, TLC

VARIABLES
    history_index,  \* per session: HistoryManager.history_index (cache_key -> entry)
    index_file,     \* storage_dir/history.json on disk
    blobs,          \* the .md files of storage_dir: file_name -> bytes
    files,          \* the source files on disk: path -> bytes, or NoFile
    now,            \* time.time()
    call            \* the application of a pure function (SpecKey)

vars == <<history_index, index_file, blobs, files, now, call>>

(***************************************************************************)
(* Bounds of the model.                                                    *)
(***************************************************************************)
\* save_analysis is called while now < MaxTime (every save advances the clock)
MaxTime == 2
\* the longest digest and template string given to get_cache_key in SpecKey
MaxStrLen == 2

(***************************************************************************)
(* Program constants.                                                      *)
(***************************************************************************)
\* len(safe_name) > 50 ... safe_name[:50]
NameLimit == 50
\* source_hash[:8]
HashPrefixLen == 8
\* length of hashlib.md5().hexdigest()
DigestLen == 32

Sessions == {"s1", "s2"}

(***************************************************************************)
(* Strings.                                                                *)
(***************************************************************************)
RECURSIVE Rep(_, _)
Rep(c, n) == IF n = 0 THEN << >> ELSE <<c>> \o Rep(c, n - 1)

\* s[:n]
Take(s, n) == SubSeq(s, 1, IF Len(s) < n THEN Len(s) ELSE n)

Letters == {"a", "b", "c", "d", "e", "f", "h", "i", "l", "m", "n", "p", "s", "t",
            "u", "x", "y"}
Digits  == {"0", "1", "2", "3", "4", "5", "6", "7", "8", "9"}

\* c.isalpha() or c.isdigit() or c in ".-_"
IsSafeChar(c) == c \in Letters \/ c \in Digits \/ c \in {".", "-", "_"}

RECURSIVE Filter(_)
Filter(s) ==
    IF s = << >> THEN << >>
    ELSE (IF IsSafeChar(Head(s)) THEN <<Head(s)>> ELSE << >>) \o Filter(Tail(s))

\* os.path.basename(source): what follows the last "/"
RECURSIVE basename(_)
basename(s) ==
    IF s = << >> THEN << >>
    ELSE IF \E i \in 1..Len(s) : s[i] = "/" THEN basename(Tail(s))
    ELSE s

(***************************************************************************)
(* The inputs of the model.                                                *)
(***************************************************************************)
PathA == <<"/", "a", "/", "p", ".", "f">>
PathB == <<"/", "b", "/", "p", ".", "f">>
UrlX  == <<"h", ":", "/", "/", "x", "/", "1", ".", "2">>

\* a copy of the file at PathA under another name
PathC == <<"/", "c", "/", "p", ".", "f", "_", "p">>

Paths   == {PathA, PathB}
Sources == {PathA, PathB, UrlX}

NoFile == <<"<", "n", "o", "n", "e", ">">>
BytesP == <<"%", "P">>
BytesQ == <<"%", "Q">>
FileBytes == {BytesP, BytesQ}
\* a file of size 0
Bytes0 == << >>

TplY  == <<"y">>
TplPA == <<"p", "_", "a">>
Templates == {TplY, TplPA}
TplA  == <<"a">>

TextLF   == <<"s", "LF">>
TextCRLF == <<"r", "CR", "LF">>
Contents == {TextLF, TextCRLF}

MetaNone  == "None"
MetaEmpty == "{}"
MetaKV    == "{k: v}"
Metadatas == {MetaNone, MetaKV}

(***************************************************************************)
(* hashlib.md5: an injective table over the byte strings of the model (no  *)
(* two of them collide), each digest DigestLen hexadecimal characters.     *)
(***************************************************************************)
Hex(c, d) == Rep(c, HashPrefixLen) \o Rep(d, DigestLen - HashPrefixLen)

Md5Table ==
    [b \in Sources \cup FileBytes \cup {PathC, Bytes0} |->
        CASE b = PathA  -> Hex("1", "a")
          [] b = Bytes0 -> Hex("7", "0")
          [] b = PathC  -> Hex("6", "f")
          [] b = PathB  -> Hex("2", "b")
          [] b = UrlX   -> Hex("3", "c")
          [] b = BytesP -> Hex("4", "d")
          [] b = BytesQ -> Hex("5", "e")]

md5(b) == Md5Table[b]

(***************************************************************************)
(* Maps (Python dict).                                                     *)
(***************************************************************************)
EmptyMap == [k \in {} |-> 0]
Put(m, k, v) == [x \in DOMAIN m \cup {k} |-> IF x = k THEN v ELSE m[x]]
Del(m, k) == [x \in DOMAIN m \ {k} |-> m[x]]

(***************************************************************************)
(* Text-mode file I/O: open(path, "w"/"r", encoding="utf-8") with the      *)
(* default newline=None.                                                   *)
(***************************************************************************)
\* os.linesep
LineSep == <<"LF">>

\* f.write(content): every "\n" is written as os.linesep
RECURSIVE TextWrite(_)
TextWrite(s) ==
    IF s = << >> THEN << >>
    ELSE (IF Head(s) = "LF" THEN LineSep ELSE <<Head(s)>>) \o TextWrite(Tail(s))

\* f.read(): universal newlines, "\r\n" and "\r" are returned as "\n"
RECURSIVE TextRead(_)
TextRead(b) ==
    IF b = << >> THEN << >>
    ELSE IF Head(b) = "CR"
         THEN IF Len(b) > 1 /\ b[2] = "LF"
              THEN <<"LF">> \o TextRead(SubSeq(b, 3, Len(b)))
              ELSE <<"LF">> \o TextRead(Tail(b))
         ELSE <<Head(b)>> \o TextRead(Tail(b))

(***************************************************************************)
(* The persisted index: history.json.                                      *)
(***************************************************************************)
\* json.dump(self.history_index, f): the document, one member per key
JsonDump(idx) == {<<k, idx[k]>> : k \in DOMAIN idx}

\* json.load(f) of a document json.dump wrote
JsonLoad(doc) == [k \in {m[1] : m \in doc} |-> (CHOOSE m \in doc : m[1] = k)[2]]

AbsentFile  == [state |-> "absent", doc |-> {}]
CorruptFile == [state |-> "corrupt", doc |-> {}]

\* an unparsable file raises inside the try and the handler returns {}
_load_index(file) == IF file.state = "ok" THEN JsonLoad(file.doc) ELSE EmptyMap

\* a rewrite that keeps the members of the file the session does not hold
_save_index_merging(idx, file, io) ==
    [state |-> "ok",
     doc |-> JsonDump(idx) \cup {m \in file.doc : m[1] \notin DOMAIN idx}]

\* a rewrite that is given up when the file on disk is not a readable index
_save_index_over_valid(idx, file, io) ==
    IF file.state = "ok" THEN [state |-> "ok", doc |-> JsonDump(idx)] ELSE file

\* io = "ok": the file is rewritten whole; "fail_open": open() raises and the
\* file is as before; "fail_write": open() truncated the file and json.dump
\* raised part way.  The handler logs the exception and returns normally.
_save_index(idx, file, io) ==
    CASE io = "ok"         -> [state |-> "ok", doc |-> JsonDump(idx)]
      [] io = "fail_open"  -> file
      [] io = "fail_write" -> CorruptFile

\* where the process is killed while _save_index runs: before open(), after
\* open() truncated the file and before json.dump wrote its last character,
\* or after the document was written
CrashPoints == {"before_open", "part_written", "all_written"}

\* a writer whose interrupted output parses: it leaves one whole member
_save_index_killed_by_member(idx, file, at) ==
    CASE at = "before_open"  -> file
      [] at = "part_written" ->
            [state |-> "ok",
             doc |-> IF idx = EmptyMap THEN {}
                     ELSE {CHOOSE m \in JsonDump(idx) : TRUE}]
      [] at = "all_written"  -> [state |-> "ok", doc |-> JsonDump(idx)]

\* the index file a killed _save_index leaves.  json.dump writes one object
\* whose closing brace is its last character, so what a kill leaves of it is
\* the empty file or a prefix json.load rejects.
_save_index_killed(idx, file, at) ==
    CASE at = "before_open"  -> file
      [] at = "part_written" -> CorruptFile
      [] at = "all_written"  -> [state |-> "ok", doc |-> JsonDump(idx)]

IoOk == [blob |-> "ok", index |-> "ok"]
IoOutcomes == {"ok", "fail_open", "fail_write"}
IoAll == [blob : IoOutcomes, index : IoOutcomes]

(***************************************************************************)
(* Fingerprint and key.                                                    *)
(***************************************************************************)
\* os.path.exists(input_source)
exists(source, fs) == source \in DOMAIN fs /\ fs[source] # NoFile

\* a path whose file name is not valid UTF-8: os.listdir and pathlib give it
\* as a str with a lone surrogate, here "SUR"
PathS == <<"/", "a", "/", "SUR">>

\* s.encode("utf-8") returns: it raises UnicodeEncodeError on a lone surrogate
Encodable(s) == \A i \in 1..Len(s) : s[i] # "SUR"

\* what a call that raised UnicodeEncodeError gives its caller
UnicodeEncodeError == <<"!">>

\* a fingerprint of the first byte of the file only
compute_hash_of_first_byte(input_source, is_file, fs, io) ==
    IF is_file /\ exists(input_source, fs) /\ io = "ok"
    THEN md5(IF Head(fs[input_source]) = Head(BytesP) THEN BytesP ELSE fs[input_source])
    ELSE IF Encodable(input_source) THEN md5(input_source) ELSE UnicodeEncodeError

\* a fingerprint of the path, whatever the file holds
compute_hash_of_path(input_source, is_file, fs, io) == md5(input_source)

\* a fingerprint that reads the file whenever the source names one, whatever
\* the is_file flag says
compute_hash_sniffing(input_source, is_file, fs, io) ==
    IF exists(input_source, fs) /\ io = "ok"
    THEN md5(fs[input_source])
    ELSE IF Encodable(input_source) THEN md5(input_source) ELSE UnicodeEncodeError

\* io # "ok": reading the file raises, and the handler hashes
\* str(input_source).  input_source.encode raises inside the try when the
\* string cannot be encoded, str(input_source).encode raises again inside
\* the handler, and that exception leaves compute_hash.
compute_hash(input_source, is_file, fs, io) ==
    IF is_file /\ exists(input_source, fs) /\ io = "ok"
    THEN md5(fs[input_source])
    ELSE IF Encodable(input_source) THEN md5(input_source) ELSE UnicodeEncodeError

\* a key without the separator
get_cache_key_joined(source_hash, prompt_name) == source_hash \o prompt_name

get_cache_key(source_hash, prompt_name) == source_hash \o <<"_">> \o prompt_name

(***************************************************************************)
(* get_analysis and save_analysis, as functions of the state they read.    *)
(***************************************************************************)
StorageDir == <<"S", "/">>

None == [hit |-> FALSE, content |-> << >>, metadata |-> MetaNone,
         timestamp |-> 0 - 1, file_path |-> << >>]

\* a lookup that evicts the stale entry in memory and does not persist
get_analysis_unpersisted(idx, file, bl, source_hash, prompt_name, io) ==
    LET cache_key == get_cache_key(source_hash, prompt_name) IN
    IF cache_key \in DOMAIN idx /\ idx[cache_key].file_name \notin DOMAIN bl
    THEN [idx |-> Del(idx, cache_key), file |-> file, ret |-> None]
    ELSE IF cache_key \in DOMAIN idx /\ io.blob = "ok"
    THEN [idx |-> idx, file |-> file,
          ret |-> [hit |-> TRUE,
                   content |-> TextRead(bl[idx[cache_key].file_name]),
                   metadata |-> idx[cache_key].metadata,
                   timestamp |-> idx[cache_key].timestamp,
                   file_path |-> StorageDir \o idx[cache_key].file_name]]
    ELSE [idx |-> idx, file |-> file, ret |-> None]

\* a lookup that forgets, in memory only, the entry whose blob file cannot be
\* read
get_analysis_dropping_unreadable(idx, file, bl, source_hash, prompt_name, io) ==
    LET cache_key == get_cache_key(source_hash, prompt_name) IN
    IF cache_key \in DOMAIN idx
    THEN IF idx[cache_key].file_name \in DOMAIN bl
         THEN IF io.blob = "ok"
              THEN [idx |-> idx, file |-> file,
                    ret |-> [hit |-> TRUE,
                             content |-> TextRead(bl[idx[cache_key].file_name]),
                             metadata |-> idx[cache_key].metadata,
                             timestamp |-> idx[cache_key].timestamp,
                             file_path |-> StorageDir \o idx[cache_key].file_name]]
              ELSE [idx |-> Del(idx, cache_key), file |-> file, ret |-> None]
         ELSE [idx |-> Del(idx, cache_key),
               file |-> _save_index(Del(idx, cache_key), file, io.index),
               ret |-> None]
    ELSE [idx |-> idx, file |-> file, ret |-> None]

\* a lookup that also evicts the entry whose blob file cannot be read
get_analysis_evicting_unreadable(idx, file, bl, source_hash, prompt_name, io) ==
    LET cache_key == get_cache_key(source_hash, prompt_name) IN
    IF cache_key \in DOMAIN idx
    THEN IF idx[cache_key].file_name \in DOMAIN bl /\ io.blob = "ok"
         THEN [idx |-> idx, file |-> file,
               ret |-> [hit |-> TRUE,
                        content |-> TextRead(bl[idx[cache_key].file_name]),
                        metadata |-> idx[cache_key].metadata,
                        timestamp |-> idx[cache_key].timestamp,
                        file_path |-> StorageDir \o idx[cache_key].file_name]]
         ELSE [idx |-> Del(idx, cache_key),
               file |-> _save_index(Del(idx, cache_key), file, io.index),
               ret |-> None]
    ELSE [idx |-> idx, file |-> file, ret |-> None]

get_analysis(idx, file, bl, source_hash, prompt_name, io) ==
    LET cache_key == get_cache_key(source_hash, prompt_name) IN
    IF cache_key \in DOMAIN idx
    THEN LET entry == idx[cache_key]
             file_path == StorageDir \o entry.file_name
         IN  IF entry.file_name \in DOMAIN bl
             THEN IF io.blob = "ok"
                  THEN [idx |-> idx, file |-> file,
                        ret |-> [hit |-> TRUE,
                                 content |-> TextRead(bl[entry.file_name]),
                                 metadata |-> entry.metadata,
                                 timestamp |-> entry.timestamp,
                                 file_path |-> file_path]]
                  ELSE [idx |-> idx, file |-> file, ret |-> None]
             ELSE [idx |-> Del(idx, cache_key),
                   file |-> _save_index(Del(idx, cache_key), file, io.index),
                   ret |-> None]
    ELSE [idx |-> idx, file |-> file, ret |-> None]

\* metadata or {}
OrEmpty(metadata) == IF metadata \in {MetaNone, MetaEmpty} THEN MetaEmpty ELSE metadata

sanitize(source) ==
    LET kept == Filter(basename(source))
        name == IF kept = << >> THEN <<"a", "n", "a", "l", "y", "s", "i", "s">> ELSE kept
    IN  IF Len(name) > NameLimit THEN Take(name, NameLimit) ELSE name

\* the safe_name of every source of the model, computed once
SafeNames == [source \in Sources |-> sanitize(source)]

safe_name(source) ==
    IF source \in DOMAIN SafeNames THEN SafeNames[source] ELSE sanitize(source)

\* a file name that leaves the template out
file_name_untemplated(source, source_hash, prompt_name) ==
    safe_name(source) \o <<"_">> \o Take(source_hash, HashPrefixLen) \o <<".", "m", "d">>

file_name(source, source_hash, prompt_name) ==
    safe_name(source) \o <<"_">> \o prompt_name \o <<"_">>
        \o Take(source_hash, HashPrefixLen) \o <<".", "m", "d">>

\* a save that keeps the timestamp of the entry it overwrites
save_analysis_keeping_timestamp(idx, file, bl, clock, source, source_hash, prompt_name, content, metadata, io) ==
    LET cache_key == get_cache_key(source_hash, prompt_name)
        fname == file_name(source, source_hash, prompt_name)
        entry == [file_name |-> fname,
                  original_source |-> source,
                  prompt_name |-> prompt_name,
                  timestamp |-> IF cache_key \in DOMAIN idx
                                THEN idx[cache_key].timestamp ELSE clock,
                  metadata |-> OrEmpty(metadata)]
        idx2 == Put(idx, cache_key, entry)
    IN  [idx |-> idx2, file |-> _save_index(idx2, file, io.index),
         bl |-> Put(bl, fname, TextWrite(content)),
         raised |-> FALSE, path |-> StorageDir \o fname]

save_analysis(idx, file, bl, clock, source, source_hash, prompt_name, content, metadata, io) ==
    LET cache_key == get_cache_key(source_hash, prompt_name)
        fname == file_name(source, source_hash, prompt_name)
        entry == [file_name |-> fname,
                  original_source |-> source,
                  prompt_name |-> prompt_name,
                  timestamp |-> clock,
                  metadata |-> OrEmpty(metadata)]
        idx2 == Put(idx, cache_key, entry)
    IN  CASE io.blob = "fail_open" ->
               [idx |-> idx, file |-> file, bl |-> bl, raised |-> TRUE, path |-> << >>]
          [] io.blob = "fail_write" ->
               [idx |-> idx, file |-> file, bl |-> Put(bl, fname, << >>),
                raised |-> TRUE, path |-> << >>]
          [] io.blob = "ok" ->
               [idx |-> idx2, file |-> _save_index(idx2, file, io.index),
                bl |-> Put(bl, fname, TextWrite(content)),
                raised |-> FALSE, path |-> StorageDir \o fname]

(***************************************************************************)
(* list_history: every entry of the index with its cache_key and its       *)
(* file_path, the most recent first; entries of equal timestamp in any     *)
(* order.                                                                  *)
(***************************************************************************)
RECURSIVE Perms(_)
Perms(S) ==
    IF S = {} THEN {<< >>}
    ELSE UNION {{<<x>> \o q : q \in Perms(S \ {x})} : x \in S}

Listed(idx, k) ==
    [cache_key |-> k,
     file_name |-> idx[k].file_name,
     original_source |-> idx[k].original_source,
     prompt_name |-> idx[k].prompt_name,
     timestamp |-> idx[k].timestamp,
     metadata |-> idx[k].metadata,
     file_path |-> StorageDir \o idx[k].file_name]

list_history(idx) ==
    {[i \in 1..Len(q) |-> Listed(idx, q[i])] :
        q \in {r \in Perms(DOMAIN idx) :
                  \A i, j \in 1..Len(r) :
                      i < j => idx[r[i]].timestamp >= idx[r[j]].timestamp}}

\* the history tab's detail expander: the result text when the file of a
\* listed entry exists, and the notice that it is lost otherwise
detail_expander(entry, bl) ==
    IF entry.file_name \in DOMAIN bl
    THEN [found |-> TRUE, text |-> TextRead(bl[entry.file_name])]
    ELSE [found |-> FALSE, text |-> << >>]

(***************************************************************************)
(* delete_history_item(cache_key, delete_file): a key that is not in the   *)
(* index is a failure and nothing is touched; otherwise the entry is       *)
(* removed and the index persisted, and when delete_file is set the blob   *)
(* file is removed too, the result being a failure when that removal       *)
(* fails (io.blob).                                                        *)
(***************************************************************************)
\* a delete that reports success for a key it does not hold
delete_history_item_lenient(idx, file, bl, cache_key, delete_file, io) ==
    [idx |-> Del(idx, cache_key), file |-> file, bl |-> bl, ret |-> TRUE]

\* a delete that leaves the blob file in place whatever is asked
delete_history_item_keeping_blob(idx, file, bl, cache_key, delete_file, io) ==
    IF cache_key \notin DOMAIN idx
    THEN [idx |-> idx, file |-> file, bl |-> bl, ret |-> FALSE]
    ELSE [idx |-> Del(idx, cache_key),
          file |-> _save_index(Del(idx, cache_key), file, io.index),
          bl |-> bl, ret |-> TRUE]

delete_history_item(idx, file, bl, cache_key, delete_file, io) ==
    IF cache_key \notin DOMAIN idx
    THEN [idx |-> idx, file |-> file, bl |-> bl, ret |-> FALSE]
    ELSE LET fname == idx[cache_key].file_name
             idx2 == Del(idx, cache_key)
             file2 == _save_index(idx2, file, io.index)
         IN  IF delete_file
             THEN IF io.blob = "ok"
                  THEN [idx |-> idx2, file |-> file2, bl |-> Del(bl, fname), ret |-> TRUE]
                  ELSE [idx |-> idx2, file |-> file2, bl |-> bl, ret |-> FALSE]
             ELSE [idx |-> idx2, file |-> file2, bl |-> bl, ret |-> TRUE]

\* the index a session constructed now would load
Persisted == _load_index(index_file)

(***************************************************************************)
(* Initial state: an empty storage directory, every session constructed    *)
(* on it, and the two source files holding the same bytes.                 *)
(***************************************************************************)
Init ==
    /\ history_index = [s \in Sessions |-> EmptyMap]
    /\ index_file = AbsentFile
    /\ blobs = EmptyMap
    /\ files = [p \in Paths |-> BytesP]
    /\ now = 0
    /\ call = [fn |-> "none"]

(***************************************************************************)
(* Operations of a session.  What a call returns is the ret (or raised,    *)
(* path) field of get_analysis and save_analysis on the state it is made   *)
(* in.                                                                     *)
(***************************************************************************)
\* HistoryManager(): __init__ loads the index
Open(s) ==
    /\ history_index' = [history_index EXCEPT ![s] = _load_index(index_file)]
    /\ UNCHANGED <<index_file, blobs, files, now, call>>

\* the fingerprint the caller computes for a source before get and save
HashOf(source, is_file) == compute_hash(source, is_file, files, "ok")

\* get_analysis(source_hash, prompt_name)
GetIO(s, source_hash, prompt_name, io) ==
    LET r == get_analysis(history_index[s], index_file, blobs,
                          source_hash, prompt_name, io)
    IN  /\ history_index' = [history_index EXCEPT ![s] = r.idx]
        /\ index_file' = r.file
        /\ UNCHANGED <<blobs, files, now, call>>

\* save_analysis(source, source_hash, prompt_name, content, metadata); the
\* clock has moved on when the next call reads it
SaveStep(s, source, source_hash, prompt_name, content, metadata, io) ==
    /\ LET r == save_analysis(history_index[s], index_file, blobs, now, source,
                              source_hash, prompt_name, content, metadata, io)
       IN  /\ history_index' = [history_index EXCEPT ![s] = r.idx]
           /\ index_file' = r.file
           /\ blobs' = r.bl
    /\ now' = now + 1

SaveIO(s, source, source_hash, prompt_name, content, metadata, io) ==
    /\ now < MaxTime
    /\ SaveStep(s, source, source_hash, prompt_name, content, metadata, io)
    /\ UNCHANGED <<files, call>>

\* the calls the sessions make: a source, and whether it is hashed as a local
\* file (by its bytes) or as a string
Requests == {<<PathA, TRUE>>, <<PathB, TRUE>>, <<PathB, FALSE>>}

\* the content and metadata saved
Payloads == {<<TextLF, MetaNone>>, <<TextCRLF, MetaKV>>}

Get(s) ==
    \E q \in Requests, prompt_name \in Templates :
        GetIO(s, HashOf(q[1], q[2]), prompt_name, IoOk)

Save(s) ==
    \E q \in Requests, prompt_name \in Templates, pl \in Payloads :
        SaveIO(s, q[1], HashOf(q[1], q[2]), prompt_name, pl[1], pl[2], IoOk)

\* list_history() reads the index and changes nothing
List(s) ==
    /\ list_history(history_index[s]) # {}
    /\ UNCHANGED vars

(***************************************************************************)
(* What happens outside the sessions.                                      *)
(***************************************************************************)
\* a result file is deleted out-of-band
RemoveBlob ==
    /\ \E fname \in DOMAIN blobs : blobs' = Del(blobs, fname)
    /\ UNCHANGED <<history_index, index_file, files, now, call>>

Next ==
    \/ \E s \in Sessions : Open(s)
    \/ \E s \in Sessions : Get(s)
    \/ \E s \in Sessions : Save(s)
    \/ \E s \in Sessions : List(s)
    \/ RemoveBlob

Spec == Init /\ [][Next]_vars

(***************************************************************************)
(* The same operations when the file system fails them.                    *)
(***************************************************************************)
\* get_analysis: reading the blob raises, or rewriting the index fails
GetFaults ==
    {[blob |-> "fail_open", index |-> "ok"],
     [blob |-> "ok", index |-> "fail_open"],
     [blob |-> "ok", index |-> "fail_write"]}

\* save_analysis: writing the blob raises, or rewriting the index fails
SaveFaults ==
    {[blob |-> "fail_open", index |-> "ok"],
     [blob |-> "fail_write", index |-> "ok"],
     [blob |-> "ok", index |-> "fail_open"],
     [blob |-> "ok", index |-> "fail_write"]}

GetFault(s) ==
    \E q \in Requests, prompt_name \in Templates, io \in GetFaults :
        GetIO(s, HashOf(q[1], q[2]), prompt_name, io)

SaveFault(s) ==
    \E q \in Requests, prompt_name \in Templates, pl \in Payloads, io \in SaveFaults :
        SaveIO(s, q[1], HashOf(q[1], q[2]), prompt_name, pl[1], pl[2], io)

NextFault ==
    \/ Next
    \/ \E s \in Sessions : GetFault(s)
    \/ \E s \in Sessions : SaveFault(s)

SpecFault == Init /\ [][NextFault]_vars

(***************************************************************************)
(* Two copies of one file under the names p.f and p.f_p, analysed with the *)
(* templates p_a and a: save_analysis gives p.f with p_a and p.f_p with a  *)
(* the same file name under two cache keys.                                *)
(***************************************************************************)
AliasPaths == {PathA, PathC}
AliasRequests == {<<PathA, TRUE>>, <<PathC, TRUE>>}
AliasTemplates == {TplPA, TplA}

InitAlias ==
    /\ history_index = [s \in Sessions |-> EmptyMap]
    /\ index_file = AbsentFile
    /\ blobs = EmptyMap
    /\ files = [p \in AliasPaths |-> BytesP]
    /\ now = 0
    /\ call = [fn |-> "none"]

AliasGet(s) ==
    \E q \in AliasRequests, prompt_name \in AliasTemplates :
        GetIO(s, HashOf(q[1], q[2]), prompt_name, IoOk)

AliasSave(s) ==
    \E q \in AliasRequests, prompt_name \in AliasTemplates, pl \in Payloads :
        SaveIO(s, q[1], HashOf(q[1], q[2]), prompt_name, pl[1], pl[2], IoOk)

NextAlias ==
    \/ \E s \in Sessions : Open(s)
    \/ \E s \in Sessions : AliasGet(s)
    \/ \E s \in Sessions : AliasSave(s)
    \/ RemoveBlob

SpecAlias == InitAlias /\ [][NextAlias]_vars

(***************************************************************************)
(* One session alone on the storage directory, with the file system        *)
(* failing some of its calls.                                              *)
(***************************************************************************)
Solo == "s1"

NextSolo ==
    \/ Open(Solo)
    \/ Get(Solo)
    \/ Save(Solo)
    \/ RemoveBlob
    \/ GetFault(Solo)
    \/ SaveFault(Solo)

SpecSolo == Init /\ [][NextSolo]_vars

(***************************************************************************)
(* The history tab: one session saves results, lists them and deletes      *)
(* them.  call records the last save or delete of the tab: for a save,     *)
(* flag says whether the key was in the index already; for a delete, flag  *)
(* is delete_file and ret the result.                                      *)
(***************************************************************************)
\* save_analysis is called in the history tab while now < MaxTabSaves
MaxTabSaves == 3

TabRequests == {<<PathA, TRUE>>, <<PathB, FALSE>>}

\* the (fingerprint, template) pairs of the tab
TabPairs == {<<HashOf(q[1], q[2]), t>> : q \in TabRequests, t \in Templates}

\* the removal of the blob file succeeds or raises
DeleteIOs == {IoOk, [blob |-> "fail_open", index |-> "ok"]}

DeleteIO(s, cache_key, delete_file, io) ==
    LET r == delete_history_item(history_index[s], index_file, blobs,
                                 cache_key, delete_file, io)
    IN  /\ history_index' = [history_index EXCEPT ![s] = r.idx]
        /\ index_file' = r.file
        /\ blobs' = r.bl
        /\ call' = [fn |-> "delete_history_item", flag |-> delete_file, ret |-> r.ret]
        /\ UNCHANGED <<files, now>>

TabSaveIO(s, source, source_hash, prompt_name, content, metadata) ==
    /\ now < MaxTabSaves
    /\ SaveStep(s, source, source_hash, prompt_name, content, metadata, IoOk)
    /\ call' = [fn |-> "save_analysis",
                flag |-> get_cache_key(source_hash, prompt_name) \in DOMAIN history_index[s],
                ret |-> TRUE]
    /\ UNCHANGED files

TabSave ==
    \E q \in TabRequests, prompt_name \in Templates :
        TabSaveIO(Solo, q[1], HashOf(q[1], q[2]), prompt_name, TextLF, MetaKV)

TabDelete ==
    \E p \in TabPairs, delete_file \in BOOLEAN, io \in DeleteIOs :
        DeleteIO(Solo, get_cache_key(p[1], p[2]), delete_file, io)

TabGet ==
    \E p \in TabPairs : GetIO(Solo, p[1], p[2], IoOk)

NextTab ==
    \/ TabSave
    \/ TabDelete
    \/ TabGet
    \/ List(Solo)
    \/ RemoveBlob

SpecTab == Init /\ [][NextTab]_vars

(***************************************************************************)
(* get_cache_key as a pure function: two pairs of a digest string and a    *)
(* template string are drawn, and the function is applied to both.         *)
(***************************************************************************)
KeyChars == {"a", "_"}
KeyStrings == UNION {[1..n -> KeyChars] : n \in 0..MaxStrLen}

InitKey ==
    /\ history_index = [s \in Sessions |-> EmptyMap]
    /\ index_file = AbsentFile
    /\ blobs = EmptyMap
    /\ files = [p \in Paths |-> BytesP]
    /\ now = 0
    /\ call \in [fn : {"args"}, d1 : KeyStrings, t1 : KeyStrings,
                 d2 : KeyStrings, t2 : KeyStrings, k1 : {<< >>}, k2 : {<< >>}]

ApplyKey ==
    /\ call.fn = "args"
    /\ call' = [call EXCEPT !.fn = "get_cache_key",
                            !.k1 = get_cache_key(call.d1, call.t1),
                            !.k2 = get_cache_key(call.d2, call.t2)]
    /\ UNCHANGED <<history_index, index_file, blobs, files, now>>

NextKey == ApplyKey

SpecKey == InitKey /\ [][NextKey]_vars

(***************************************************************************)
(* compute_hash as a pure function: a source, the is_file flag, what the   *)
(* file system holds at the paths and whether reading succeeds are drawn,  *)
(* and the function is applied.                                            *)
(***************************************************************************)
HashPaths == {PathA, PathS}
HashSources == {PathA, PathS, UrlX}
ReadOutcomes == {"ok", "fail_open"}

InitHash ==
    /\ history_index = [s \in Sessions |-> EmptyMap]
    /\ index_file = AbsentFile
    /\ blobs = EmptyMap
    /\ files \in [HashPaths -> FileBytes \cup {NoFile}]
    /\ now = 0
    /\ call \in [fn : {"args"}, input_source : HashSources, is_file : BOOLEAN,
                 io : ReadOutcomes, ret : {<< >>}, of_string : {<< >>}]

ApplyHash ==
    /\ call.fn = "args"
    /\ call' = [call EXCEPT
                  !.fn = "compute_hash",
                  !.ret = compute_hash(call.input_source, call.is_file, files, call.io),
                  !.of_string = compute_hash(call.input_source, FALSE, files, "ok")]
    /\ UNCHANGED <<history_index, index_file, blobs, files, now>>

NextHash == ApplyHash

SpecHash == InitHash /\ [][NextHash]_vars

(***************************************************************************)
(* The file name of save_analysis as a pure function: a source, a template *)
(* and a fingerprint are drawn, and lines 134-142 are applied.             *)
(***************************************************************************)
NameChars == {"a", "?", "/"}

\* a base name longer than NameLimit
LongName == Rep("a", NameLimit + 1)

NameSources == UNION {[1..n -> NameChars] : n \in 0..MaxStrLen} \cup {LongName}

\* a template name that holds a space
TplSpace == <<"x", " ", "y">>
NameTemplates == {TplY, TplPA, TplSpace}

\* a digest, and a fingerprint shorter than HashPrefixLen
NameHashes == {md5(BytesP), <<"4", "d">>}

InitName ==
    /\ history_index = [s \in Sessions |-> EmptyMap]
    /\ index_file = AbsentFile
    /\ blobs = EmptyMap
    /\ files = [p \in Paths |-> BytesP]
    /\ now = 0
    /\ call \in [fn : {"args"}, source : NameSources, prompt_name : NameTemplates,
                 source_hash : NameHashes, stem : {<< >>}, ret : {<< >>}]

ApplyName ==
    /\ call.fn = "args"
    /\ call' = [call EXCEPT
                  !.fn = "file_name",
                  !.stem = safe_name(call.source),
                  !.ret = file_name(call.source, call.source_hash, call.prompt_name)]
    /\ UNCHANGED <<history_index, index_file, blobs, files, now>>

NextName == ApplyName

SpecName == InitName /\ [][NextName]_vars

(***************************************************************************)
(* The calls the properties range over.                                    *)
(***************************************************************************)
\* the fingerprints a caller can hold in this state
Hashes == {HashOf(q[1], q[2]) : q \in Requests}

\* what get_analysis returns to session s in this state
GetNow(s, source_hash, prompt_name) ==
    get_analysis(history_index[s], index_file, blobs, source_hash, prompt_name, IoOk).ret

\* what get_analysis returns to session s in the state a step leads to
GetNext(s, source_hash, prompt_name) ==
    get_analysis(history_index'[s], index_file', blobs', source_hash, prompt_name, IoOk).ret

\* the blob file of key k of index idx exists
BlobExists(idx, k) == k \in DOMAIN idx /\ idx[k].file_name \in DOMAIN blobs

(***************************************************************************)
(* C1.  Round trip: a save followed at once by a get with the same         *)
(* fingerprint and template returns a hit whose content and metadata are   *)
(* the content and the metadata that were saved.                           *)
(***************************************************************************)
C1_RoundTrip ==
    [][\A s \in Sessions, q \in Requests, t \in Templates, pl \in Payloads :
          (/\ pl[2] # MetaNone
           /\ SaveIO(s, q[1], HashOf(q[1], q[2]), t, pl[1], pl[2], IoOk))
          => LET r == GetNext(s, HashOf(q[1], q[2]), t)
             IN  r.hit /\ r.content = pl[1] /\ r.metadata = pl[2]]_vars

(***************************************************************************)
(* C2.  Last write wins: a save under a key that the session has already   *)
(* saved with other content leaves exactly one entry for the key, in       *)
(* memory and in the persisted document, and a get that follows returns    *)
(* the content of this second save.                                        *)
(***************************************************************************)
C2_LastWriteWins ==
    [][\A s \in Sessions, q \in Requests, t \in Templates, pl \in Payloads :
          LET h == HashOf(q[1], q[2])
              k == get_cache_key(h, t)
          IN  (/\ GetNow(s, h, t).hit
               /\ GetNow(s, h, t).content # pl[1]
               /\ SaveIO(s, q[1], h, t, pl[1], pl[2], IoOk))
              => /\ k \in DOMAIN history_index'[s]
                 /\ Cardinality({m \in index_file'.doc : m[1] = k}) = 1
                 /\ GetNext(s, h, t).hit
                 /\ GetNext(s, h, t).content = pl[1]]_vars

(***************************************************************************)
(* C3.  Self-heal: a get for a key that is in the session's index while    *)
(* its blob file is gone returns a miss, and after it the key is in        *)
(* neither the session's index nor the persisted index.                    *)
(***************************************************************************)
C3_SelfHeal ==
    [][history_index' # history_index =>
       \A s \in Sessions, h \in Hashes, t \in Templates :
          LET k == get_cache_key(h, t)
          IN  (/\ k \in DOMAIN history_index[s]
               /\ ~BlobExists(history_index[s], k)
               /\ GetIO(s, h, t, IoOk))
              => /\ ~GetNow(s, h, t).hit
                 /\ k \notin DOMAIN history_index'[s]
                 /\ index_file'.state = "ok"
                 /\ k \notin DOMAIN Persisted']_vars

\* a key of a session's index whose blob file has been deleted: the state
\* the self-healing get is made in
C3_Orphaned ==
    \E s \in Sessions, h \in Hashes, t \in Templates :
        /\ get_cache_key(h, t) \in DOMAIN history_index[s]
        /\ ~BlobExists(history_index[s], get_cache_key(h, t))
        /\ get_cache_key(h, t) \in DOMAIN Persisted

\* the state the self-healing get leaves: one save was made, its blob is
\* gone, and the persisted index was rewritten without the entry
C3_Healed ==
    /\ now = 1
    /\ blobs = EmptyMap
    /\ index_file.state = "ok"
    /\ Persisted = EmptyMap
    /\ \E s \in Sessions : history_index[s] = EmptyMap

(***************************************************************************)
(* C4.  Nothing is surfaced for an entry whose blob file is missing: a get *)
(* that returns a hit and every entry list_history returns name a blob     *)
(* file that exists.                                                       *)
(***************************************************************************)
C4_SurfacedBlobExists ==
    \A s \in Sessions :
        /\ \A h \in Hashes, t \in Templates :
               GetNow(s, h, t).hit => BlobExists(history_index[s], get_cache_key(h, t))
        /\ \A listing \in list_history(history_index[s]) :
               \A i \in 1..Len(listing) : detail_expander(listing[i], blobs).found

(***************************************************************************)
(* C5.  save succeeds or raises: a save that returns normally has left the *)
(* blob file holding the content and the persisted index holding the       *)
(* entry of the key, and a save whose blob write or index write failed     *)
(* raises.                                                                 *)
(***************************************************************************)
C5_SaveSucceedsOrRaises ==
    [][\A s \in Sessions, q \in Requests, t \in Templates, pl \in Payloads,
          io \in {IoOk} \cup SaveFaults :
          LET h == HashOf(q[1], q[2])
              k == get_cache_key(h, t)
              r == save_analysis(history_index[s], index_file, blobs, now, q[1],
                                 h, t, pl[1], pl[2], io)
          IN  SaveIO(s, q[1], h, t, pl[1], pl[2], io)
              => /\ io # IoOk => r.raised
                 /\ ~r.raised =>
                       /\ file_name(q[1], h, t) \in DOMAIN blobs'
                       /\ blobs'[file_name(q[1], h, t)] = TextWrite(pl[1])
                       /\ index_file'.state = "ok"
                       /\ k \in DOMAIN Persisted'
                       /\ Persisted'[k] = history_index'[s][k]]_vars

(***************************************************************************)
(* C6.  Lost update: a save rewrites the persisted index from the saving   *)
(* session's own copy, so after it the persisted index is that copy, and   *)
(* every entry another session had persisted that the saving session never *)
(* loaded is gone from the persisted index.                                *)
(***************************************************************************)
C6_LostUpdate ==
    [][now' # now =>
       \A s \in Sessions, q \in Requests, t \in Templates, pl \in Payloads :
          SaveIO(s, q[1], HashOf(q[1], q[2]), t, pl[1], pl[2], IoOk)
          => /\ Persisted' = history_index'[s]
             /\ \A k \in DOMAIN Persisted :
                    (k \notin DOMAIN history_index[s]
                        /\ k # get_cache_key(HashOf(q[1], q[2]), t))
                    => k \notin DOMAIN Persisted']_vars

\* two sessions have each saved one key, the blob files of both exist, and
\* the persisted index holds the key of one of them only
C6_EntryLost ==
    \E s1, s2 \in Sessions :
        \E k1 \in DOMAIN history_index[s1], k2 \in DOMAIN history_index[s2] :
            /\ s1 # s2 /\ k1 # k2 /\ now = 2
            /\ DOMAIN history_index[s1] = {k1}
            /\ DOMAIN history_index[s2] = {k2}
            /\ BlobExists(history_index[s1], k1)
            /\ BlobExists(history_index[s2], k2)
            /\ DOMAIN Persisted = {k2}

(***************************************************************************)
(* C7.  Reads see the persisted index: a get for a key that is in the      *)
(* persisted index, with its blob file in place, returns a hit to every    *)
(* session, whenever that session was constructed.                         *)
(***************************************************************************)
C7_GetSeesPersisted ==
    \A s \in Sessions, h \in Hashes, t \in Templates :
        BlobExists(Persisted, get_cache_key(h, t)) => GetNow(s, h, t).hit

(***************************************************************************)
(* C8.  Dedup: two existing files at different paths that hold the same    *)
(* bytes have the same fingerprint and, under one template, the same cache *)
(* key, and what a session saves through one path it gets back as a hit    *)
(* through the other.                                                      *)
(***************************************************************************)
C8_Dedup ==
    [][now' # now =>
       \A p, q \in Paths, t \in Templates :
          (p # q /\ exists(p, files) /\ exists(q, files) /\ files[p] = files[q])
          => /\ compute_hash(p, TRUE, files, "ok") = compute_hash(q, TRUE, files, "ok")
             /\ get_cache_key(compute_hash(p, TRUE, files, "ok"), t)
                    = get_cache_key(compute_hash(q, TRUE, files, "ok"), t)
             /\ \A s \in Sessions, pl \in Payloads :
                    SaveIO(s, p, compute_hash(p, TRUE, files, "ok"), t, pl[1], pl[2], IoOk)
                    => GetNext(s, compute_hash(q, TRUE, files', "ok"), t).hit]_vars

\* an entry saved through one path is a hit for the fingerprint of another
\* path that holds the same bytes
C8_HitThroughOtherPath ==
    \E s \in Sessions, p, q \in Paths, t \in Templates :
        LET k == get_cache_key(compute_hash(q, TRUE, files, "ok"), t)
        IN  /\ p # q /\ exists(p, files) /\ exists(q, files) /\ files[p] = files[q]
            /\ k \in DOMAIN history_index[s]
            /\ history_index[s][k].original_source = p
            /\ GetNow(s, compute_hash(q, TRUE, files, "ok"), t).hit

(***************************************************************************)
(* C9.  Two templates applied to one source have distinct cache keys and   *)
(* distinct blob files, and a save under one template leaves what get      *)
(* returns for the other template of that source (content, metadata,       *)
(* timestamp, or a miss) as it was, in every session.                      *)
(***************************************************************************)
C9_TemplatesIndependent ==
    [][now' # now =>
       \A s \in Sessions, q \in Requests, t2 \in Templates, pl \in Payloads :
          LET h == HashOf(q[1], q[2])
          IN  SaveIO(s, q[1], h, t2, pl[1], pl[2], IoOk)
              => \A t1 \in Templates \ {t2} :
                     /\ get_cache_key(h, t1) # get_cache_key(h, t2)
                     /\ file_name(q[1], h, t1) # file_name(q[1], h, t2)
                     /\ \A o \in Sessions :
                            (get_cache_key(h, t1) \in DOMAIN history_index[o]
                                => history_index[o][get_cache_key(h, t1)].original_source = q[1])
                            => GetNext(o, h, t1) = GetNow(o, h, t1)]_vars

\* one session holds one source under both templates, saved at different
\* times with different content, and gets both back
C9_BothTemplatesCached ==
    \E s \in Sessions, h \in Hashes :
        LET ky == get_cache_key(h, TplY)
            kp == get_cache_key(h, TplPA)
        IN  /\ ky \in DOMAIN history_index[s] /\ kp \in DOMAIN history_index[s]
            /\ history_index[s][ky].original_source = history_index[s][kp].original_source
            /\ history_index[s][ky].timestamp # history_index[s][kp].timestamp
            /\ GetNow(s, h, TplY).hit /\ GetNow(s, h, TplPA).hit
            /\ GetNow(s, h, TplY).content # GetNow(s, h, TplPA).content

(***************************************************************************)
(* C10.  The key function is injective and deterministic over all digest   *)
(* and template strings: distinct pairs get distinct keys and equal pairs  *)
(* get equal keys.                                                         *)
(***************************************************************************)
C10_KeyInjective ==
    call.fn = "get_cache_key"
    => /\ (call.d1 # call.d2 \/ call.t1 # call.t2) => call.k1 # call.k2
       /\ (call.d1 = call.d2 /\ call.t1 = call.t2) => call.k1 = call.k2

\* a digest as hexdigest() returns it holds no separator
IsHex(d) == \A i \in 1..Len(d) : d[i] # "_"

(***************************************************************************)
(* C10, amended.  Over digests that hold no "_" (every digest compute_hash *)
(* returns is hexadecimal) and all template strings, distinct pairs get    *)
(* distinct keys and equal pairs get equal keys.                           *)
(***************************************************************************)
C10_KeyInjectiveOnDigests ==
    (call.fn = "get_cache_key" /\ IsHex(call.d1) /\ IsHex(call.d2))
    => /\ (call.d1 # call.d2 \/ call.t1 # call.t2) => call.k1 # call.k2
       /\ (call.d1 = call.d2 /\ call.t1 = call.t2) => call.k1 = call.k2

\* the function was applied to two distinct pairs of a hexadecimal digest
\* and a template that holds the separator
C10_DistinctPairsApplied ==
    /\ call.fn = "get_cache_key"
    /\ IsHex(call.d1) /\ IsHex(call.d2) /\ call.d1 # call.d2
    /\ ~IsHex(call.t1) /\ ~IsHex(call.t2)
    /\ call.k1 # call.k2

(***************************************************************************)
(* C11.  Corrupt-index recovery: constructing a session while the index    *)
(* file is absent or unparsable gives it the empty index, and a save the   *)
(* session then makes returns normally and leaves a valid persisted index  *)
(* that holds the saved entry and nothing else.                            *)
(***************************************************************************)
C11_CorruptIndexRecovery ==
    [][index_file.state # "ok" =>
       \A s \in Sessions :
          /\ Open(s) => history_index'[s] = EmptyMap
          /\ history_index[s] = EmptyMap =>
                \A q \in Requests, t \in Templates, pl \in Payloads :
                   LET h == HashOf(q[1], q[2])
                       k == get_cache_key(h, t)
                       r == save_analysis(history_index[s], index_file, blobs, now,
                                          q[1], h, t, pl[1], pl[2], IoOk)
                   IN  SaveIO(s, q[1], h, t, pl[1], pl[2], IoOk)
                       => /\ ~r.raised
                          /\ index_file'.state = "ok"
                          /\ DOMAIN Persisted' = {k}
                          /\ Persisted'[k] = [file_name |-> file_name(q[1], h, t),
                                              original_source |-> q[1],
                                              prompt_name |-> t,
                                              timestamp |-> now,
                                              metadata |-> OrEmpty(pl[2])]
                          /\ file_name(q[1], h, t) \in DOMAIN blobs']_vars

\* a first save wrote its blob and left no readable index; the session was
\* constructed again and its second save is all the persisted index holds
C11_Recovered ==
    /\ now = 2
    /\ Cardinality(DOMAIN blobs) = 2
    /\ \A f \in DOMAIN blobs : blobs[f] # << >>
    /\ index_file.state = "ok"
    /\ Cardinality(DOMAIN Persisted) = 1
    /\ \A k \in DOMAIN Persisted : Persisted[k].timestamp = 1
    /\ history_index[Solo] = Persisted

\* what get_analysis returns to a session constructed in the state a step
\* leads to
GetFresh(source_hash, prompt_name) ==
    get_analysis(_load_index(index_file'), index_file', blobs',
                 source_hash, prompt_name, IoOk).ret

(***************************************************************************)
(* C12.  Persistence across sessions: once a save has returned, a session  *)
(* constructed on the same storage directory gets a hit for the saved      *)
(* fingerprint and template, with the content and the metadata that were   *)
(* saved.                                                                  *)
(***************************************************************************)
C12_PersistsAcrossSessions ==
    [][now' # now =>
       \A s \in Sessions, q \in Requests, t \in Templates, pl \in Payloads :
          (/\ pl[2] # MetaNone
           /\ SaveIO(s, q[1], HashOf(q[1], q[2]), t, pl[1], pl[2], IoOk))
          => LET r == GetFresh(HashOf(q[1], q[2]), t)
             IN  r.hit /\ r.content = pl[1] /\ r.metadata = pl[2]]_vars

(***************************************************************************)
(* C13.  A delete of a key that is not in the index returns a failure and  *)
(* leaves the index, in memory and persisted, and every blob file as they  *)
(* were.                                                                   *)
(***************************************************************************)
C13_DeleteMissingKey ==
    [][call' # call =>
       \A p \in TabPairs, delete_file \in BOOLEAN, io \in DeleteIOs :
          LET k == get_cache_key(p[1], p[2])
          IN  (k \notin DOMAIN history_index[Solo] /\ DeleteIO(Solo, k, delete_file, io))
              => /\ call'.ret = FALSE
                 /\ UNCHANGED <<history_index, index_file, blobs>>]_vars

\* a delete that asked for the index entry alone has failed, which only a
\* missing key makes it do, and the entries and blob files of two saves are
\* all in place
C13_MissingKeyRefused ==
    /\ call.fn = "delete_history_item" /\ ~call.flag /\ ~call.ret
    /\ now = 2
    /\ Cardinality(DOMAIN history_index[Solo]) = 2
    /\ Persisted = history_index[Solo]
    /\ \A k \in DOMAIN history_index[Solo] : BlobExists(history_index[Solo], k)

(***************************************************************************)
(* C14.  A delete of a key that is in the index removes the entry, in      *)
(* memory and persisted, so that a get for the key misses and no listing   *)
(* holds it; the blob file of the entry is removed when delete_file is set *)
(* and the removal succeeds and is left in place otherwise; every other    *)
(* entry and every other blob file is as before; and the result is a       *)
(* failure exactly when delete_file is set and the removal failed.         *)
(***************************************************************************)
C14_DeleteExistingKey ==
    [][call' # call =>
       \A p \in TabPairs, delete_file \in BOOLEAN, io \in DeleteIOs :
          LET k == get_cache_key(p[1], p[2])
              idx == history_index[Solo]
          IN  (k \in DOMAIN idx /\ DeleteIO(Solo, k, delete_file, io))
              => LET fname == idx[k].file_name
                 IN  /\ history_index'[Solo] = Del(idx, k)
                     /\ Persisted' = Del(idx, k)
                     /\ ~GetNext(Solo, p[1], p[2]).hit
                     /\ \A listing \in list_history(history_index'[Solo]) :
                            \A i \in 1..Len(listing) : listing[i].cache_key # k
                     /\ (delete_file /\ io.blob = "ok") => fname \notin DOMAIN blobs'
                     /\ ~(delete_file /\ io.blob = "ok") => blobs' = blobs
                     /\ \A f \in (DOMAIN blobs \cup DOMAIN blobs') \ {fname} :
                            f \in DOMAIN blobs /\ f \in DOMAIN blobs' /\ blobs'[f] = blobs[f]
                     /\ call'.ret = ~(delete_file /\ io.blob # "ok")]_vars

\* of two saved entries one was deleted with its blob file, and the other
\* entry and its blob file are in place
C14_DeletedWithBlob ==
    /\ call.fn = "delete_history_item" /\ call.flag /\ call.ret
    /\ now = 2
    /\ Cardinality(DOMAIN history_index[Solo]) = 1
    /\ Cardinality(DOMAIN blobs) = 1
    /\ Persisted = history_index[Solo]
    /\ \A k \in DOMAIN history_index[Solo] : BlobExists(history_index[Solo], k)

\* listing holds every key of idx once, the most recent first
IsListingOf(listing, idx) ==
    /\ Len(listing) = Cardinality(DOMAIN idx)
    /\ {listing[i].cache_key : i \in 1..Len(listing)} = DOMAIN idx
    /\ \A i \in 1..Len(listing) :
           /\ listing[i].timestamp = idx[listing[i].cache_key].timestamp
           /\ \A j \in 1..Len(listing) :
                  i < j => listing[i].timestamp >= listing[j].timestamp

(***************************************************************************)
(* C15.  Every listing list_history returns holds one element for every    *)
(* key of the index and no other, in the order of non-increasing           *)
(* timestamp, and after a save the saved key is the first element.         *)
(***************************************************************************)
C15_ListOrdered ==
    [][/\ \A listing \in list_history(history_index'[Solo]) :
              IsListingOf(listing, history_index'[Solo])
       /\ list_history(history_index'[Solo]) # {}
       /\ now' # now =>
             \A q \in TabRequests, t \in Templates :
                TabSaveIO(Solo, q[1], HashOf(q[1], q[2]), t, TextLF, MetaKV)
                => \A listing \in list_history(history_index'[Solo]) :
                       listing[1].cache_key = get_cache_key(HashOf(q[1], q[2]), t)]_vars

\* a key that was in the index has just been saved again, and it is listed
\* first, before an entry saved between its two saves
C15_ResavedListedFirst ==
    /\ call.fn = "save_analysis" /\ call.flag
    /\ now = 3
    /\ Cardinality(DOMAIN history_index[Solo]) = 2
    /\ \A listing \in list_history(history_index[Solo]) :
           /\ listing[1].timestamp = 2
           /\ listing[2].timestamp = 1

\* a digest: DigestLen characters
IsDigest(d) == Len(d) = DigestLen /\ d # UnicodeEncodeError

(***************************************************************************)
(* C16.  compute_hash never raises: for every source and is_file flag it   *)
(* returns a digest, and when reading the file fails the digest is the one *)
(* it returns for the same source with is_file false.                      *)
(***************************************************************************)
C16_HashNeverRaises ==
    call.fn = "compute_hash"
    => /\ IsDigest(call.ret)
       /\ (call.is_file /\ exists(call.input_source, files) /\ call.io # "ok")
              => call.ret = call.of_string

\* s ends with suffix
EndsWith(s, suffix) ==
    /\ Len(suffix) <= Len(s)
    /\ SubSeq(s, Len(s) - Len(suffix) + 1, Len(s)) = suffix

\* the stem of a file name: what survives of the base name of the source, cut
\* to NameLimit characters, or "analysis" when nothing survives
IsStemOf(stem, source) ==
    /\ Len(stem) <= NameLimit
    /\ \A i \in 1..Len(stem) : IsSafeChar(stem[i])
    /\ IF Filter(basename(source)) = << >>
       THEN stem = <<"a", "n", "a", "l", "y", "s", "i", "s">>
       ELSE stem = Take(Filter(basename(source)), NameLimit)

(***************************************************************************)
(* C17.  For every source, template and fingerprint, the file name save    *)
(* writes holds only letters, digits, ".", "-" and "_"; its stem is the    *)
(* sanitised base name of the source cut to 50 characters, or "analysis";  *)
(* and it ends with "_", the template, "_", the first 8 characters of the  *)
(* fingerprint and ".md".                                                  *)
(***************************************************************************)
C17_FileNameSafe ==
    call.fn = "file_name"
    => /\ \A i \in 1..Len(call.ret) : IsSafeChar(call.ret[i])
       /\ IsStemOf(call.stem, call.source)
       /\ call.ret = call.stem \o <<"_">> \o call.prompt_name \o <<"_">>
                        \o Take(call.source_hash, HashPrefixLen) \o <<".", "m", "d">>
       /\ EndsWith(call.ret, <<"_">> \o call.prompt_name \o <<"_">>
                        \o Take(call.source_hash, HashPrefixLen) \o <<".", "m", "d">>)

\* the calls of Spec and of SpecAlias
AnyRequests == Requests \cup AliasRequests
AnyTemplates == Templates \cup AliasTemplates

(***************************************************************************)
(* C18.  An orphaned entry (its key is in a session's index, its blob file *)
(* is gone) yields a hit again only through a save under its own key: a    *)
(* step that takes a key from orphaned to retrievable is a save_analysis   *)
(* for that fingerprint and template, never a get and never a save under   *)
(* another key.                                                            *)
(***************************************************************************)
C18_OrphanNeedsFreshSave ==
    [][blobs' # blobs =>
       \A s \in Sessions, q \in AnyRequests, t \in AnyTemplates :
          LET h == HashOf(q[1], q[2])
              k == get_cache_key(h, t)
          IN  (/\ k \in DOMAIN history_index[s]
               /\ ~BlobExists(history_index[s], k)
               /\ GetNext(s, h, t).hit)
              => \E o \in Sessions, r \in AnyRequests, pl \in Payloads :
                     /\ HashOf(r[1], r[2]) = h
                     /\ SaveIO(o, r[1], h, t, pl[1], pl[2], IoOk)]_vars

\* the outcomes of the file system in a get and in a save
GetIOs == {IoOk} \cup GetFaults
SaveIOs == {IoOk} \cup SaveFaults

\* the keys whose entry in the index of session s a step creates, removes
\* or modifies
Changed(s) ==
    {k \in DOMAIN history_index[s] \cup DOMAIN history_index'[s] :
        \/ k \notin DOMAIN history_index[s]
        \/ k \notin DOMAIN history_index'[s]
        \/ history_index'[s][k] # history_index[s][k]}

\* what a get_analysis made in this state does to the index: it adds and
\* modifies nothing, removes at most the key it looks up and only when the
\* blob file of that key is missing, and touches neither the index in memory
\* nor the persisted index when the key is not in the index
GetFrame ==
    \A s \in Sessions, h \in Hashes, t \in Templates, io \in GetIOs :
        LET idx == history_index[s]
            k == get_cache_key(h, t)
            r == get_analysis(idx, index_file, blobs, h, t, io)
        IN  /\ r.idx = idx \/ r.idx = Del(idx, k)
            /\ r.idx # idx => (k \in DOMAIN idx /\ ~BlobExists(idx, k))
            /\ k \notin DOMAIN idx => (r.idx = idx /\ r.file = index_file /\ ~r.ret.hit)

(***************************************************************************)
(* C19.  Lifecycle and frame of the index entries.  A key that is new in a *)
(* session's index was loaded from the persisted index at construction or  *)
(* was put there by a save_analysis that wrote its blob file; a save       *)
(* changes no entry but the one of its key, in the session that saves; a   *)
(* get adds and modifies nothing and removes at most the key it looks up,  *)
(* and only when the blob file of that key is missing; and a get for a key *)
(* the index does not hold changes neither the index in memory, nor the    *)
(* persisted index, nor any blob file.                                     *)
(***************************************************************************)
C19_EntryLifecycle ==
    /\ []GetFrame
    /\ [][/\ \A s \in Sessions :
                \A k \in DOMAIN history_index'[s] \ DOMAIN history_index[s] :
                   \/ Open(s) /\ k \in DOMAIN Persisted
                   \/ \E q \in Requests, t \in Templates, pl \in Payloads, io \in SaveIOs :
                          /\ k = get_cache_key(HashOf(q[1], q[2]), t)
                          /\ io.blob = "ok"
                          /\ SaveIO(s, q[1], HashOf(q[1], q[2]), t, pl[1], pl[2], io)
                          /\ history_index'[s][k].file_name \in DOMAIN blobs'
                          /\ blobs'[history_index'[s][k].file_name] = TextWrite(pl[1])
          /\ now' # now =>
                /\ \A s, o \in Sessions :
                       (Changed(s) # {} /\ Changed(o) # {}) => s = o
                /\ \A s \in Sessions :
                       /\ Cardinality(Changed(s)) <= 1
                       /\ \A k \in Changed(s) :
                              \E q \in Requests, t \in Templates, pl \in Payloads,
                                 io \in SaveIOs :
                                 /\ k = get_cache_key(HashOf(q[1], q[2]), t)
                                 /\ SaveIO(s, q[1], HashOf(q[1], q[2]), t, pl[1], pl[2], io)
          /\ (now' = now /\ blobs' # blobs) =>
                \A s \in Sessions, h \in Hashes, t \in Templates, io \in GetIOs :
                   ~GetIO(s, h, t, io)]_vars

\* after two calls of save_analysis the session holds the entry of the
\* first alone, with its blob file the only one: the second save failed to
\* write its blob and created nothing, or its entry was pruned by the get
\* that looked it up after its blob file was deleted
C19_OneEntryLeft ==
    /\ now = 2
    /\ Cardinality(DOMAIN history_index[Solo]) = 1
    /\ \A k \in DOMAIN history_index[Solo] :
           /\ history_index[Solo][k].timestamp = 0
           /\ BlobExists(history_index[Solo], k)
    /\ Cardinality(DOMAIN blobs) = 1
    /\ Persisted = history_index[Solo]

(***************************************************************************)
(* C20.  A save whose blob write fails raises, leaves the index as it was, *)
(* in memory and persisted, and leaves what get returns for the key (the   *)
(* entry stored before, with its content) as it was.                       *)
(***************************************************************************)
C20_BlobWriteFailure ==
    [][now' # now =>
       \A s \in Sessions, q \in Requests, t \in Templates, pl \in Payloads,
          io \in {f \in SaveFaults : f.blob # "ok"} :
          LET h == HashOf(q[1], q[2])
              r == save_analysis(history_index[s], index_file, blobs, now, q[1],
                                 h, t, pl[1], pl[2], io)
          IN  SaveIO(s, q[1], h, t, pl[1], pl[2], io)
              => /\ r.raised
                 /\ history_index' = history_index
                 /\ index_file' = index_file
                 /\ GetNext(s, h, t) = GetNow(s, h, t)]_vars

(***************************************************************************)
(* One session whose source files are edited between its calls.            *)
(***************************************************************************)
\* the file at a path gets other bytes; the cache is not told
ChangeSource ==
    /\ \E p \in Paths, bytes \in FileBytes :
          /\ exists(p, files)
          /\ bytes # files[p]
          /\ files' = [files EXCEPT ![p] = bytes]
    /\ UNCHANGED <<history_index, index_file, blobs, now, call>>

\* the session analyses local files only, one payload
EditRequests == {<<PathA, TRUE>>, <<PathB, TRUE>>}

EditGet ==
    \E q \in EditRequests, prompt_name \in Templates :
        GetIO(Solo, HashOf(q[1], q[2]), prompt_name, IoOk)

EditSave ==
    \E q \in EditRequests, prompt_name \in Templates :
        SaveIO(Solo, q[1], HashOf(q[1], q[2]), prompt_name, TextLF, MetaNone, IoOk)

NextEdit ==
    \/ EditGet
    \/ EditSave
    \/ ChangeSource
    \/ RemoveBlob

SpecEdit == Init /\ [][NextEdit]_vars

(***************************************************************************)
(* C21.  Content addressing: the fingerprint of an existing file hashed    *)
(* with is_file true is a function of its bytes only (two existing files   *)
(* have equal fingerprints exactly when they hold equal bytes), and when   *)
(* the file at a path is modified its fingerprint changes, the cache key   *)
(* of the new fingerprint is another key than the one of the old, and a    *)
(* get with the new fingerprint is a hit only if it already was one before *)
(* the modification: the entry saved for the old bytes is never served.    *)
(***************************************************************************)
C21_ContentAddressing ==
    /\ [](\A p, q \in Paths :
            (exists(p, files) /\ exists(q, files))
            => /\ compute_hash(p, TRUE, files, "ok") = md5(files[p])
               /\ (compute_hash(p, TRUE, files, "ok") = compute_hash(q, TRUE, files, "ok"))
                      <=> (files[p] = files[q]))
    /\ [][\A p \in Paths :
            (exists(p, files) /\ exists(p, files') /\ files'[p] # files[p])
            => LET old == compute_hash(p, TRUE, files, "ok")
                   new == compute_hash(p, TRUE, files', "ok")
               IN  /\ new # old
                   /\ \A t \in Templates :
                         /\ get_cache_key(new, t) # get_cache_key(old, t)
                         /\ GetNext(Solo, new, t).hit => GetNow(Solo, new, t).hit]_vars

\* the entry saved through PathA for its old bytes is still a hit under the
\* old fingerprint, the file holds other bytes now, and a get with the new
\* fingerprint misses
C21_StaleEntryMissed ==
    \E t \in Templates, bytes \in FileBytes :
        LET k == get_cache_key(md5(bytes), t)
        IN  /\ exists(PathA, files) /\ files[PathA] # bytes
            /\ k \in DOMAIN history_index[Solo]
            /\ history_index[Solo][k].original_source = PathA
            /\ GetNow(Solo, md5(bytes), t).hit
            /\ ~GetNow(Solo, HashOf(PathA, TRUE), t).hit

\* what the file system can hold at the paths compute_hash is given
HashFileSystems == [HashPaths -> FileBytes \cup {NoFile}]

(***************************************************************************)
(* C22.  Identity addressing: when is_file is false, or is_file is true    *)
(* but no file exists at the path, the fingerprint compute_hash returns is *)
(* the digest of the source string; it is the fingerprint returned for     *)
(* that string with is_file false, and the one returned under every other  *)
(* content of the file system in which the call is again an identity call. *)
(***************************************************************************)
C22_IdentityAddressing ==
    (/\ call.fn = "compute_hash"
     /\ ~call.is_file \/ ~exists(call.input_source, files)
     /\ call.ret # UnicodeEncodeError)
    => /\ call.ret = md5(call.input_source)
       /\ IsDigest(call.ret)
       /\ call.ret = call.of_string
       /\ \A fs \in HashFileSystems :
             (~call.is_file \/ ~exists(call.input_source, fs))
             => compute_hash(call.input_source, call.is_file, fs, call.io) = call.ret

\* a file with bytes exists at the source, is_file is false, and the
\* fingerprint returned is the digest of the path and not of the bytes
C22_ExistingFileHashedByName ==
    /\ call.fn = "compute_hash"
    /\ ~call.is_file
    /\ exists(call.input_source, files)
    /\ call.ret = md5(call.input_source)
    /\ call.ret # md5(files[call.input_source])

(***************************************************************************)
(* One session whose process is killed while it rewrites the index file,   *)
(* and is started again.                                                   *)
(***************************************************************************)
\* save_analysis wrote the blob and updated the index in memory, the process
\* is killed inside _save_index, and HistoryManager() is constructed again
CrashSaveIO(s, source, source_hash, prompt_name, content, metadata, at) ==
    /\ now < MaxTime
    /\ LET r == save_analysis(history_index[s], index_file, blobs, now, source,
                              source_hash, prompt_name, content, metadata, IoOk)
           file == _save_index_killed(r.idx, index_file, at)
       IN  /\ blobs' = r.bl
           /\ index_file' = file
           /\ history_index' = [history_index EXCEPT ![s] = _load_index(file)]
    /\ now' = now + 1
    /\ UNCHANGED <<files, call>>

\* get_analysis found the blob file of its key missing and deleted the key in
\* memory, the process is killed inside _save_index, and HistoryManager() is
\* constructed again
CrashPruneIO(s, source_hash, prompt_name, at) ==
    /\ LET r == get_analysis(history_index[s], index_file, blobs, source_hash,
                             prompt_name, IoOk)
           file == _save_index_killed(r.idx, index_file, at)
       IN  /\ r.idx # history_index[s]
           /\ index_file' = file
           /\ history_index' = [history_index EXCEPT ![s] = _load_index(file)]
    /\ UNCHANGED <<blobs, files, now, call>>

CrashSave(s) ==
    \E q \in Requests, prompt_name \in Templates, pl \in Payloads, at \in CrashPoints :
        CrashSaveIO(s, q[1], HashOf(q[1], q[2]), prompt_name, pl[1], pl[2], at)

CrashPrune(s) ==
    \E h \in Hashes, prompt_name \in Templates, at \in CrashPoints :
        CrashPruneIO(s, h, prompt_name, at)

NextCrash ==
    \/ Get(Solo)
    \/ Save(Solo)
    \/ RemoveBlob
    \/ CrashSave(Solo)
    \/ CrashPrune(Solo)

SpecCrash == Init /\ [][NextCrash]_vars

(***************************************************************************)
(* C23.  Crash during persist: when the process is killed at any point     *)
(* while save_analysis or the pruning get_analysis rewrites the index      *)
(* file, the index a later construction loads is the index persisted       *)
(* before the rewrite, the index the rewrite was writing, or the empty     *)
(* index, and the load returns without raising.                            *)
(***************************************************************************)
C23_CrashDuringPersist ==
    [][/\ \A q \in Requests, t \in Templates, pl \in Payloads, at \in CrashPoints :
            CrashSaveIO(Solo, q[1], HashOf(q[1], q[2]), t, pl[1], pl[2], at)
            => LET r == save_analysis(history_index[Solo], index_file, blobs, now,
                                      q[1], HashOf(q[1], q[2]), t, pl[1], pl[2], IoOk)
               IN  /\ Persisted' \in {Persisted, r.idx, EmptyMap}
                   /\ history_index'[Solo] = Persisted'
       /\ \A h \in Hashes, t \in Templates, at \in CrashPoints :
            CrashPruneIO(Solo, h, t, at)
            => LET r == get_analysis(history_index[Solo], index_file, blobs, h, t, IoOk)
               IN  /\ Persisted' \in {Persisted, r.idx, EmptyMap}
                   /\ history_index'[Solo] = Persisted']_vars

\* two saves wrote their blobs, the second was killed after it truncated the
\* index file, and the session constructed afterwards holds the empty index
C23_TruncatedLoadsEmpty ==
    /\ index_file = CorruptFile
    /\ Cardinality(DOMAIN blobs) = 2
    /\ \A f \in DOMAIN blobs : blobs[f] # << >>
    /\ history_index[Solo] = EmptyMap

(***************************************************************************)
(* The batch mode of the front end: every file of a directory is analysed  *)
(* with the selected template and its result saved, unless the file is     *)
(* empty or is taken to be in the history already.                         *)
(***************************************************************************)
BatchPaths == {PathA, PathB, PathC}

\* dir_path.rglob("*.pdf"): the files of a directory, at most two here
BatchDirs ==
    {<<p>> : p \in BatchPaths}
        \cup {x \in BatchPaths \X BatchPaths : x[1] # x[2]}

\* process_paper_stream yields its chunks, or raises
StreamOutcomes == {"ok", "raise"}

\* the set of base names of the original_source of the listed entries
processed_filenames(history) ==
    {basename(history[i].original_source) :
        i \in {j \in 1..Len(history) :
                 /\ history[j].original_source # << >>
                 /\ basename(history[j].original_source) # << >>}}

\* the loop over pdf_files.  st holds the index of reader.history_manager,
\* the index file, the result files, the clock, and for every file what was
\* done with it and whether the key of its content and the selected template
\* was in the index at its turn.
RECURSIVE batch_loop(_, _, _, _, _, _)
batch_loop(st, pdf_files, processed, selected_prompt, fs, stream) ==
    IF pdf_files = << >> THEN st
    ELSE
      LET file_path == Head(pdf_files)
          file_hash == md5(fs[file_path])
          cached    == get_cache_key(file_hash, selected_prompt) \in DOMAIN st.idx
          noted(outcome) ==
              Append(st.log, [file_path |-> file_path, outcome |-> outcome,
                              cached |-> cached])
      IN  IF Len(fs[file_path]) = 0
          THEN batch_loop([st EXCEPT !.log = noted("empty")], Tail(pdf_files),
                          processed, selected_prompt, fs, stream)
          ELSE IF basename(file_path) \in processed
          THEN batch_loop([st EXCEPT !.log = noted("skipped")], Tail(pdf_files),
                          processed, selected_prompt, fs, stream)
          ELSE IF stream = "raise"
          THEN batch_loop([st EXCEPT !.log = noted("failed")], Tail(pdf_files),
                          processed, selected_prompt, fs, stream)
          ELSE
            LET r == save_analysis(st.idx, st.file, st.bl, st.clock, file_path,
                                   file_hash, selected_prompt, TextLF, MetaKV, IoOk)
            IN  batch_loop([idx |-> r.idx, file |-> r.file, bl |-> r.bl,
                            clock |-> st.clock + 1, log |-> noted("analysed")],
                           Tail(pdf_files), processed, selected_prompt, fs, stream)

\* one press of the button in batch mode: SmartPaper() and HistoryManager()
\* are constructed, the history is listed once, and the loop runs
Batch(pdf_files, selected_prompt, stream) ==
    /\ now < MaxTime
    /\ LET loaded  == _load_index(index_file)
           history == CHOOSE l \in list_history(loaded) : TRUE
           st == batch_loop([idx |-> loaded, file |-> index_file, bl |-> blobs,
                             clock |-> now, log |-> << >>],
                            pdf_files, processed_filenames(history),
                            selected_prompt, files, stream)
       IN  /\ history_index' = [history_index EXCEPT ![Solo] = st.idx]
           /\ index_file' = st.file
           /\ blobs' = st.bl
           /\ now' = st.clock
           /\ call' = [fn |-> "batch", selected_prompt |-> selected_prompt,
                       log |-> st.log]
    /\ UNCHANGED files

InitBatch ==
    /\ history_index = [s \in Sessions |-> EmptyMap]
    /\ index_file = AbsentFile
    /\ blobs = EmptyMap
    /\ files \in {[p \in BatchPaths |->
                     CASE p = PathA -> BytesP
                       [] p = PathB -> b
                       [] p = PathC -> BytesP] : b \in {BytesQ, Bytes0}}
    /\ now = 0
    /\ call = [fn |-> "none"]

NextBatch ==
    \E pdf_files \in BatchDirs, selected_prompt \in Templates, stream \in StreamOutcomes :
        Batch(pdf_files, selected_prompt, stream)

SpecBatch == InitBatch /\ [][NextBatch]_vars

(***************************************************************************)
(* C24.  The batch driver skips a file that is not empty exactly when the   *)
(* key of its content fingerprint and the selected template is in the      *)
(* index at the file's turn, and analyses it otherwise: no file is skipped *)
(* while its identity is not cached, and none is analysed while it is.     *)
(***************************************************************************)
C24_SkipByIdentity ==
    call.fn = "batch"
    => \A i \in 1..Len(call.log) :
          call.log[i].outcome # "empty"
          => ((call.log[i].outcome = "skipped") <=> call.log[i].cached)

(***************************************************************************)
(* C25.  A get never removes from the persisted index an entry whose blob  *)
(* file exists: when a get rewrites the index file, every key that was     *)
(* persisted before with its blob file in place is persisted after.        *)
(***************************************************************************)
C25_GetKeepsOthersEntries ==
    [][(now' = now /\ index_file' # index_file)
       => \A k \in DOMAIN Persisted :
             BlobExists(Persisted, k) => k \in DOMAIN Persisted']_vars

(***************************************************************************)
(* C26.  Distinct keys never share a blob file: any two entries of a       *)
(* session's index, and of the persisted index, that have different cache  *)
(* keys have different file_name values.                                   *)
(***************************************************************************)
C26_DistinctKeysDistinctFiles ==
    /\ \A s \in Sessions :
          \A k1, k2 \in DOMAIN history_index[s] :
              k1 # k2 => history_index[s][k1].file_name # history_index[s][k2].file_name
    /\ \A k1, k2 \in DOMAIN Persisted :
          k1 # k2 => Persisted[k1].file_name # Persisted[k2].file_name

(***************************************************************************)
(* C27.  In a single session, after every save that returned normally and  *)
(* after every get, the pruning one included, the index loaded from the    *)
(* index file equals the index the session holds in memory.                *)
(***************************************************************************)
C27_PersistedMirrorsMemory ==
    [][/\ \A q \in Requests, t \in Templates, pl \in Payloads, io \in SaveIOs :
            LET h == HashOf(q[1], q[2])
                r == save_analysis(history_index[Solo], index_file, blobs, now, q[1],
                                   h, t, pl[1], pl[2], io)
            IN  (SaveIO(Solo, q[1], h, t, pl[1], pl[2], io) /\ ~r.raised)
                => Persisted' = history_index'[Solo]
       /\ \A h \in Hashes, t \in Templates, io \in GetIOs :
            GetIO(Solo, h, t, io) => Persisted' = history_index'[Solo]]_vars

\* the blob file is there and open() or read() on it raises
Unreadable == {io \in GetFaults : io.blob # "ok"}

(***************************************************************************)
(* C28.  When a key is in the session's index and its blob file exists but *)
(* reading it fails, get_analysis returns a miss, leaves the index in      *)
(* memory and the index file as they were, and the same get made again     *)
(* with the file readable is a hit.                                        *)
(***************************************************************************)
C28_UnreadableBlobKept ==
    \A h \in Hashes, t \in Templates, io \in Unreadable :
        BlobExists(history_index[Solo], get_cache_key(h, t))
        => LET r == get_analysis(history_index[Solo], index_file, blobs, h, t, io)
           IN  /\ r.ret = None
               /\ r.idx = history_index[Solo]
               /\ r.file = index_file
               /\ get_analysis(r.idx, r.file, blobs, h, t, IoOk).ret.hit
               /\ get_analysis(r.idx, r.file, blobs, h, t, IoOk).ret.content
                      = TextRead(blobs[history_index[Solo][get_cache_key(h, t)].file_name])

\* an entry whose blob file is in place misses while the file cannot be read
\* and is a hit with its content when it can
C28_MissThenHit ==
    \E h \in Hashes, t \in Templates, io \in Unreadable :
        /\ BlobExists(history_index[Solo], get_cache_key(h, t))
        /\ ~get_analysis(history_index[Solo], index_file, blobs, h, t, io).ret.hit
        /\ get_cache_key(h, t) \in
              DOMAIN get_analysis(history_index[Solo], index_file, blobs, h, t, io).idx
        /\ GetNow(Solo, h, t).hit
        /\ GetNow(Solo, h, t).content # << >>

(***************************************************************************)
(* The front end's process_paper: a generator of events.  A URL is a       *)
(* sequence of six parts: scheme, host, kind, identifier, version and what *)
(* follows.  call holds the generator's frame: where it stands (pc), its   *)
(* arguments, what the analysis stream is going to do, and the events it   *)
(* has yielded so far.                                                     *)
(***************************************************************************)
MaxChunks == 2

UrlAbs   == <<"https://", "arxiv.org/", "abs/", "2401.1", "v3", "">>
UrlPdf   == <<"http://", "arxiv.org/", "pdf/", "2401.1", "", ".pdf">>
UrlOther == <<"https://", "example.org/", "abs/", "2401.1", "", "">>
UrlNoId  == <<"https://", "arxiv.org/", "abs/", "latest", "", "">>
UrlInputs == {UrlAbs, UrlPdf, UrlOther, UrlNoId}

\* an uploaded file, by its name
Uploads == {<<"p", ".", "p", "d", "f">>}

ValueError == <<"ValueError">>

\* re.match(r"https?://arxiv\.org/(abs|pdf)/(\d+\.\d+)(v\d+)?", url): the
\* pattern is anchored at the start only, and the result is the pdf address
\* of the identifier and version
validate_and_format_arxiv_url(url) ==
    IF /\ url[1] \in {"http://", "https://"}
       /\ url[2] = "arxiv.org/"
       /\ url[3] \in {"abs/", "pdf/"}
       /\ url[4] \in {"2401.1"}
    THEN <<"https://", "arxiv.org/", "pdf/", url[4],
           IF url[5] \in {"v3"} THEN url[5] ELSE "">>
    ELSE ValueError

Chunk(content) == [type |-> "chunk", content |-> content]
Final(success) == [type |-> "final", success |-> success]

\* what an invalid URL yields as the outer handler would: the error as a
\* chunk and then the final event
url_rejected_like_failure(events) ==
    events \o <<Chunk("error"), Final(FALSE)>>

\* except ValueError: yield the final event (then return)
url_rejected(events) == Append(events, Final(FALSE))

InitStream ==
    /\ history_index = [s \in Sessions |-> EmptyMap]
    /\ index_file = AbsentFile
    /\ blobs = EmptyMap
    /\ files = [p \in Paths |-> BytesP]
    /\ now = 0
    /\ \E input_source \in UrlInputs \cup Uploads, n \in 0..MaxChunks,
          raises \in BOOLEAN, setup \in {"ok", "raise"} :
          call = [fn |-> "process_paper", pc |-> "start",
                  input_source |-> input_source,
                  is_file_upload |-> input_source \in Uploads,
                  chunks |-> n, raises |-> raises, setup |-> setup,
                  url |-> << >>, started |-> FALSE, sent |-> 0,
                  events |-> << >>]

StreamFrame == UNCHANGED <<history_index, index_file, blobs, files, now>>

\* lines 67-79: the URL is validated, or the name of the upload is taken
Validate ==
    /\ call.fn = "process_paper" /\ call.pc = "start"
    /\ IF call.is_file_upload
       THEN call' = [call EXCEPT !.url = call.input_source, !.pc = "setup"]
       ELSE LET url == validate_and_format_arxiv_url(call.input_source)
            IN  IF url = ValueError
                THEN call' = [call EXCEPT !.events = url_rejected(call.events),
                                          !.pc = "done"]
                ELSE call' = [call EXCEPT !.url = url, !.pc = "setup"]
    /\ StreamFrame

\* lines 81-114: the output directory and file, SmartPaper(), the temporary
\* file, and the stream generator; any of them may raise
Setup ==
    /\ call.fn = "process_paper" /\ call.pc = "setup"
    /\ IF call.setup = "raise"
       THEN call' = [call EXCEPT !.pc = "except"]
       ELSE call' = [call EXCEPT !.started = TRUE, !.pc = "stream"]
    /\ StreamFrame

\* lines 116-122: one chunk is written to the output file and yielded
StreamChunk ==
    /\ call.fn = "process_paper" /\ call.pc = "stream"
    /\ call.sent < call.chunks
    /\ call' = [call EXCEPT !.sent = call.sent + 1,
                            !.events = Append(call.events, Chunk("text"))]
    /\ StreamFrame

\* the stream or f.write raises after the chunks yielded so far
StreamRaise ==
    /\ call.fn = "process_paper" /\ call.pc = "stream"
    /\ call.sent = call.chunks /\ call.raises
    /\ call' = [call EXCEPT !.pc = "except"]
    /\ StreamFrame

\* lines 124-126: the stream is exhausted
StreamEnd ==
    /\ call.fn = "process_paper" /\ call.pc = "stream"
    /\ call.sent = call.chunks /\ ~call.raises
    /\ call' = [call EXCEPT !.events = Append(call.events, Final(TRUE)),
                            !.pc = "done"]
    /\ StreamFrame

\* lines 128-131: the handler yields the error as a chunk
ExceptChunk ==
    /\ call.fn = "process_paper" /\ call.pc = "except"
    /\ call' = [call EXCEPT !.events = Append(call.events, Chunk("error")),
                            !.pc = "except_final"]
    /\ StreamFrame

\* line 132: and then the final event
ExceptFinal ==
    /\ call.fn = "process_paper" /\ call.pc = "except_final"
    /\ call' = [call EXCEPT !.events = Append(call.events, Final(FALSE)),
                            !.pc = "done"]
    /\ StreamFrame

NextStream ==
    \/ Validate
    \/ Setup
    \/ StreamChunk
    \/ StreamRaise
    \/ StreamEnd
    \/ ExceptChunk
    \/ ExceptFinal

SpecStream == InitStream /\ [][NextStream]_vars

\* the consumer's for loop asks for the next event until the generator ends,
\* and the analysis stream ends or raises after finitely many chunks
SpecStreamFair == SpecStream /\ WF_vars(NextStream)

\* the positions of the final events among the events yielded
Finals == {i \in 1..Len(call.events) : call.events[i].type = "final"}

\* the events are the chunks of the analysis stream, all of them
AllChunksStreamed ==
    /\ call.sent = call.chunks
    /\ \A i \in 1..Len(call.events) - 1 : call.events[i] = Chunk("text")
    /\ Len(call.events) = call.chunks + 1

(***************************************************************************)
(* C29.  Every run of process_paper comes to its end, and then exactly one *)
(* final event has been yielded and it is the last event; while the run is *)
(* under way no final event has been yielded.  The final event has success *)
(* true only if the analysis was started, nothing raised, and the events   *)
(* before it are all the chunks of the stream.  For a URL that is not      *)
(* valid the events are the one final event with success false, and the    *)
(* analysis is never started.                                              *)
(***************************************************************************)
C29_OneFinalEventLast ==
    /\ [](/\ call.pc # "done" => Finals = {}
          /\ call.pc = "done" => Finals = {Len(call.events)}
          /\ \A i \in Finals :
                call.events[i].success
                => /\ call.started /\ call.setup = "ok" /\ ~call.raises
                   /\ AllChunksStreamed
          /\ (~call.is_file_upload
                 /\ validate_and_format_arxiv_url(call.input_source) = ValueError)
             => /\ ~call.started
                /\ call.pc = "done" => call.events = <<Final(FALSE)>>
                /\ call.pc # "done" => call.events = << >>)
    /\ <>(call.pc = "done")

\* a run on a valid URL whose stream raised after its chunks: the chunks, the
\* error chunk and the final event with success false
C29_FailedAfterChunks ==
    /\ call.pc = "done"
    /\ call.input_source = UrlAbs
    /\ call.url = <<"https://", "arxiv.org/", "pdf/", "2401.1", "v3">>
    /\ call.chunks = MaxChunks /\ call.raises
    /\ call.events = [i \in 1..MaxChunks |-> Chunk("text")]
                        \o <<Chunk("error"), Final(FALSE)>>

====
